---------------------------- MODULE Spec2Model ----------------------------
(***************************************************************************)
(* A model of scripts/spike_train_analysis.py: the spike generator         *)
(* (generate_spike_train), the rate estimator (calculate_firing_rate),     *)
(* the ISI analyzer (calculate_isi_statistics) and the classification      *)
(* done by print_summary_statistics.                                       *)
(*                                                                         *)
(* Numbers.  Timestamps, durations and bin sizes are integers (a grid of   *)
(* milliseconds).  Quotients are exact fractions [num, den] in lowest      *)
(* terms; a denominator of 0 stands for the IEEE results of a division by  *)
(* zero (0/0 = NaN, x/0 = inf).  A standard deviation and a coefficient of *)
(* variation are square roots: they are held as [radicand |-> fraction],   *)
(* the non-negative root of that fraction, so that comparisons with the    *)
(* thresholds 0.5 and 1.5 are exact.  Floating-point rounding is not       *)
(* modelled.                                                               *)
(***************************************************************************)
EXTENDS Integers, Sequences, FiniteSets, TLC

VARIABLES
    spike_times,   \* the spike train handed to the analyzers
    rates,         \* result of the last calculate_firing_rate call
    stats,         \* result of the last calculate_isi_statistics call
    summary,       \* what the last print_summary_statistics call printed
    rng,           \* state of numpy's global random source
    stream,        \* the output of the random source in each of its states
    gen,           \* the last generate_spike_train call and what it returned
    probe          \* an earlier generate_spike_train call, kept for comparison

vars == <<spike_times, rates, stats, summary, rng, stream, gen, probe>>

-----------------------------------------------------------------------------
(* Bounds of the model *)

\* Analyzer inputs: trains of at most MaxLen spikes at times 0..MaxTime.
MaxLen == 3
MaxTime == 5
\* Bin sizes handed to the rate estimator: -1..MaxBin.
MaxBin == 3
\* ISI inputs: trains of at most MaxIsiLen spikes at times 0..MaxIsiTime
\* (nine spikes are the shortest train whose cv is exactly 1.5).
MaxIsiLen == 9
MaxIsiTime == 8
\* The random source has RngStates states; each of its outputs is one of
\* Resolution values.
RngStates == 3
Resolution == 3

-----------------------------------------------------------------------------
(* Arithmetic *)

Abs(x) == IF x < 0 THEN -x ELSE x

Max(a, b) == IF a >= b THEN a ELSE b

RECURSIVE GCD(_, _)
GCD(a, b) == IF b = 0 THEN a ELSE GCD(b, a % b)

\* The fraction n/d, d # 0, in lowest terms with a positive denominator.
Frac(n, d) ==
    LET g == GCD(Abs(n), Abs(d))
        sn == IF d < 0 THEN -n ELSE n
    IN [num |-> sn \div g, den |-> Abs(d) \div g]

Zero == Frac(0, 1)

\* IEEE results of a float64 division by zero.
NaN == [num |-> 0, den |-> 0]
Inf == [num |-> 1, den |-> 0]

FracLess(x, y) == x.num * y.den < y.num * x.den

\* x / y for fractions x >= 0 and y >= 0, as numpy's float64 divides.
FracDiv(x, y) ==
    IF y.num = 0 THEN (IF x.num = 0 THEN NaN ELSE Inf)
    ELSE Frac(x.num * y.den, x.den * y.num)

\* The non-negative square root of the fraction f.
Sqrt(f) == [radicand |-> f]

\* sqrt(r) / y for a fraction y >= 0.
RootDiv(r, y) ==
    IF y.num = 0 THEN Sqrt(IF r.radicand.num = 0 THEN NaN ELSE Inf)
    ELSE Sqrt(Frac(r.radicand.num * y.den * y.den,
                   r.radicand.den * y.num * y.num))

\* sqrt(r) < p/q for integers p >= 0, q > 0; false for NaN and inf.
RootLess(r, p, q) ==
    /\ r.radicand.den # 0
    /\ r.radicand.num * q * q < p * p * r.radicand.den

\* s[lo] + ... + s[hi], by halves.
RECURSIVE SumRange(_, _, _)
SumRange(s, lo, hi) ==
    IF lo > hi THEN 0
    ELSE IF lo = hi THEN s[lo]
    ELSE LET mid == (lo + hi) \div 2
         IN SumRange(s, lo, mid) + SumRange(s, mid + 1, hi)

SumSeq(s) == SumRange(s, 1, Len(s))

\* ceil(a / b) for b > 0.
CeilDiv(a, b) == -((-a) \div b)

\* Python's int(a / b) for b > 0: truncation toward zero.
TruncDiv(a, b) == IF a >= 0 THEN a \div b ELSE -((-a) \div b)

\* The sorted sequences of at most n values drawn from lo..hi, each length
\* built from the one before by appending a value no smaller than the last.
RECURSIVE SortedSeqs(_, _, _)
SortedSeqs(n, lo, hi) ==
    IF n = 0 THEN {<<>>}
    ELSE LET shorter == SortedSeqs(n - 1, lo, hi)
             longest == {s \in shorter : Len(s) = n - 1}
         IN shorter \cup
            UNION {{Append(s, t) : t \in (IF s = <<>> THEN lo ELSE s[Len(s)])..hi} :
                       s \in longest}

-----------------------------------------------------------------------------
(* The ISI analyzer *)

\* np.diff: the differences of consecutive elements.
Diff(s) == [i \in 1..Max(Len(s) - 1, 0) |-> s[i + 1] - s[i]]

\* np.mean of a non-empty sequence.
Mean(s) == Frac(SumSeq(s), Len(s))

\* np.std of a non-empty sequence: the root of the mean squared deviation
\* from the mean (ddof = 0).  With n = len(s) and S = sum(s) the deviation of
\* s[i] is (n*s[i] - S)/n.
Std(s) ==
    LET n == Len(s)
        S == SumSeq(s)
        sq == [i \in 1..n |-> (n * s[i] - S) * (n * s[i] - S)]
    IN Sqrt(Frac(SumSeq(sq), n * n * n))

\* calculate_isi_statistics without its early return for an empty isis:
\* np.mean and np.std of an empty array are NaN, and NaN > 0 is false.
calculate_isi_statistics_no_early_return(train) ==
    LET isis == Diff(train)
        mean_isi == IF Len(isis) = 0 THEN NaN ELSE Mean(isis)
        std_isi == IF Len(isis) = 0 THEN Sqrt(NaN) ELSE Std(isis)
        cv == IF mean_isi.den # 0 /\ FracLess(Zero, mean_isi)
              THEN RootDiv(std_isi, mean_isi) ELSE Sqrt(Zero)
    IN [mean_isi |-> mean_isi, std_isi |-> std_isi, cv |-> cv,
        num_intervals |-> Len(isis)]

\* calculate_isi_statistics dividing std_isi by mean_isi whatever the mean.
calculate_isi_statistics_no_zero_guard(train) ==
    LET isis == Diff(train) IN
    IF Len(isis) = 0
    THEN [mean_isi |-> Zero, std_isi |-> Sqrt(Zero), cv |-> Sqrt(Zero),
          num_intervals |-> 0]
    ELSE [mean_isi |-> Mean(isis), std_isi |-> Std(isis),
          cv |-> RootDiv(Std(isis), Mean(isis)),
          num_intervals |-> Len(isis)]

calculate_isi_statistics(train) ==
    LET isis == Diff(train) IN
    IF Len(isis) = 0
    THEN [mean_isi |-> Zero, std_isi |-> Sqrt(Zero), cv |-> Sqrt(Zero),
          num_intervals |-> 0]
    ELSE LET mean_isi == Mean(isis)
             std_isi == Std(isis)
             cv == IF FracLess(Zero, mean_isi) THEN RootDiv(std_isi, mean_isi)
                   ELSE Sqrt(Zero)
         IN [mean_isi |-> mean_isi, std_isi |-> std_isi, cv |-> cv,
             num_intervals |-> Len(isis)]

Regular == "Regular/rhythmic firing"
PoissonLike == "Poisson-like (irregular) firing"
Bursty == "Bursty/highly variable firing"

PatternShifted(cv) ==
    IF RootLess(cv, 1, 2) \/ cv = Sqrt(Frac(1, 4)) THEN Regular
    ELSE IF RootLess(cv, 3, 2) \/ cv = Sqrt(Frac(9, 4)) THEN PoissonLike
    ELSE Bursty

\* The interpretation of the CV value in print_summary_statistics.
Pattern(cv) ==
    IF RootLess(cv, 1, 2) THEN Regular
    ELSE IF RootLess(cv, 3, 2) THEN PoissonLike
    ELSE Bursty

\* What print_summary_statistics computes and prints.
print_summary_statistics(train) ==
    LET duration == IF Len(train) > 0 THEN Frac(train[Len(train)], 1000)
                    ELSE Frac(1, 1)
        num_spikes == Len(train)
        st == calculate_isi_statistics(train)
    IN [duration |-> duration,
        num_spikes |-> num_spikes,
        mean_rate |-> FracDiv(Frac(num_spikes, 1), duration),
        stats |-> st,
        pattern |-> Pattern(st.cv)]

NotCalled == [called |-> FALSE]

InitIsi ==
    /\ spike_times \in SortedSeqs(MaxIsiLen, 0, MaxIsiTime)
    /\ stats = NotCalled
    /\ summary = NotCalled
    /\ rates = NotCalled
    /\ rng = 0 /\ stream = <<>> /\ gen = NotCalled /\ probe = NotCalled

CalculateIsiStatistics ==
    /\ stats = NotCalled /\ summary = NotCalled
    /\ stats' = [called |-> TRUE, result |-> calculate_isi_statistics(spike_times)]
    /\ UNCHANGED <<spike_times, rates, summary, rng, stream, gen, probe>>

PrintSummaryStatistics ==
    /\ stats = NotCalled /\ summary = NotCalled
    /\ summary' = [called |-> TRUE, printed |-> print_summary_statistics(spike_times)]
    /\ UNCHANGED <<spike_times, rates, stats, rng, stream, gen, probe>>

NextIsi == CalculateIsiStatistics \/ PrintSummaryStatistics

SpecIsi == InitIsi /\ [][NextIsi]_vars

-----------------------------------------------------------------------------
(* Claims about the ISI analyzer and the classification (under SpecIsi) *)

ZeroRecord ==
    [mean_isi |-> [num |-> 0, den |-> 1],
     std_isi |-> [radicand |-> [num |-> 0, den |-> 1]],
     cv |-> [radicand |-> [num |-> 0, den |-> 1]],
     num_intervals |-> 0]

AllEqual(train) == \A i \in 1..Len(train) : train[i] = train[1]

\* C2: for a train of zero or one timestamp calculate_isi_statistics returns
\* the record {mean_isi: 0, std_isi: 0, cv: 0, num_intervals: 0}, and for a
\* train of any length num_intervals = max(0, len(train) - 1).
C2_ZeroOneSpikeContract ==
    stats.called =>
        /\ Len(spike_times) <= 1 => stats.result = ZeroRecord
        /\ stats.result.num_intervals =
               (IF Len(spike_times) >= 1 THEN Len(spike_times) - 1 ELSE 0)

C2_Witness ==
    /\ stats.called
    /\ Len(spike_times) = 1
    /\ stats.result.num_intervals = 0

\* C5: the label is a total function of cv with thresholds exactly at 0.5
\* and 1.5: cv < 0.5 regular, 0.5 <= cv < 1.5 Poisson-like, cv >= 1.5 bursty
\* (cv^2 = num/den, so cv < 1/2 iff 4*num < den and cv < 3/2 iff
\* 4*num < 9*den); exactly one label is chosen.
C5_ClassificationThresholds ==
    summary.called =>
        LET sq == summary.printed.stats.cv.radicand
            p == summary.printed.pattern
        IN /\ sq.den > 0
           /\ p \in {Regular, PoissonLike, Bursty}
           /\ (p = Regular) <=> (4 * sq.num < sq.den)
           /\ (p = PoissonLike) <=> (4 * sq.num >= sq.den /\ 4 * sq.num < 9 * sq.den)
           /\ (p = Bursty) <=> (4 * sq.num >= 9 * sq.den)

\* A train whose cv is exactly 1.5 was classified, as bursty.
C5_Witness ==
    /\ summary.called
    /\ summary.printed.stats.cv.radicand.num * 4 = 9 * summary.printed.stats.cv.radicand.den
    /\ summary.printed.pattern = Bursty

\* C6: for a train of at least two timestamps that are all equal (mean ISI
\* 0) the result has cv = 0, mean_isi = 0, std_isi = 0 and
\* num_intervals = len(train) - 1, and no division by zero happens (no NaN,
\* no inf); whenever the mean is positive, cv = std_isi / mean_isi, that is
\* cv^2 * mean_isi^2 = std_isi^2.
C6_ZeroDivisionGuard ==
    (stats.called /\ Len(spike_times) >= 2) =>
        LET r == stats.result IN
        /\ r.cv.radicand.den # 0 /\ r.mean_isi.den # 0 /\ r.std_isi.radicand.den # 0
        /\ AllEqual(spike_times) =>
               /\ r.cv.radicand = [num |-> 0, den |-> 1]
               /\ r.mean_isi = [num |-> 0, den |-> 1]
               /\ r.std_isi.radicand = [num |-> 0, den |-> 1]
               /\ r.num_intervals = Len(spike_times) - 1
        /\ r.mean_isi.num > 0 =>
               r.cv.radicand.num * r.mean_isi.num * r.mean_isi.num * r.std_isi.radicand.den
                   = r.std_isi.radicand.num * r.cv.radicand.den * r.mean_isi.den * r.mean_isi.den

C6_Witness ==
    /\ stats.called
    /\ Len(spike_times) >= 3
    /\ AllEqual(spike_times)
    /\ stats.result.cv = [radicand |-> [num |-> 0, den |-> 1]]

-----------------------------------------------------------------------------
(* The rate estimator *)

\* An optional argument: None, or Some(v).
None == <<>>
Some(v) == <<v>>

\* np.arange(0, stop, step), step # 0: the values 0, step, 2*step, ...
\* of which there are ceil(stop / step), none when that is not positive.
Arange(stop, step) ==
    LET n == IF step > 0 THEN CeilDiv(stop, step) ELSE CeilDiv(-stop, -step)
    IN [i \in 1..Max(n, 0) |-> (i - 1) * step]

\* np.histogram(a, bins=edges) for an array of edges: bin k is
\* [edges[k], edges[k+1]), the last bin also holds its right edge; values
\* outside the edges are not counted.
Histogram(a, edges) ==
    LET nb == Max(Len(edges) - 1, 0)
        InBin(x, k) == /\ edges[k] <= x
                       /\ \/ x < edges[k + 1]
                          \/ k = nb /\ x = edges[k + 1]
    IN [k \in 1..nb |-> Cardinality({i \in 1..Len(a) : InBin(a[i], k)})]

DefaultDurationFixed(train) == 1000

\* The duration used when none is given.
DefaultDuration(train) ==
    IF Len(train) > 0 THEN train[Len(train)] ELSE 1000

BinEdgesShort(duration, bin_size) == Arange(duration, bin_size)

\* The time bins.
BinEdges(duration, bin_size) == Arange(duration + bin_size, bin_size)

\* calculate_firing_rate(spike_times, bin_size, duration).  np.arange raises
\* ZeroDivisionError for a step of 0, np.histogram raises ValueError for
\* edges that do not increase monotonically.
calculate_firing_rate(train, bin_size, duration) ==
    LET d == IF duration = None THEN DefaultDuration(train) ELSE duration[1] IN
    IF bin_size = 0 THEN [outcome |-> "ZeroDivisionError", duration |-> d]
    ELSE LET bins == BinEdges(d, bin_size) IN
         IF \E i \in 1..(Len(bins) - 1) : bins[i] > bins[i + 1]
         THEN [outcome |-> "ValueError", duration |-> d]
         ELSE LET counts == Histogram(train, bins)
                  nb == Len(counts)
              IN [outcome |-> "ok",
                  duration |-> d,
                  bin_centers |-> [k \in 1..nb |-> Frac(2 * bins[k] + bin_size, 2)],
                  firing_rates |-> [k \in 1..nb |-> Frac(counts[k] * 1000, bin_size)]]

BinSizes == (-1)..MaxBin
DurationArgs == {None} \cup {Some(d) : d \in 0..MaxTime}

InitRate ==
    /\ spike_times \in SortedSeqs(MaxLen, 0, MaxTime)
    /\ rates = NotCalled
    /\ stats = NotCalled
    /\ summary = NotCalled
    /\ rng = 0 /\ stream = <<>> /\ gen = NotCalled /\ probe = NotCalled

CalculateFiringRate(bin_size, duration) ==
    /\ rates' = [called |-> TRUE, bin_size |-> bin_size, given |-> duration,
                 result |-> calculate_firing_rate(spike_times, bin_size, duration)]
    /\ UNCHANGED <<spike_times, stats, summary, rng, stream, gen, probe>>

NextRate ==
    \E bin_size \in BinSizes, duration \in DurationArgs :
        CalculateFiringRate(bin_size, duration)

SpecRate == InitRate /\ [][NextRate]_vars

-----------------------------------------------------------------------------
(* Claims about the rate estimator (under SpecRate) *)

\* The spike count behind a rate: rate * bin_size / 1000.
CountOf(rate, bin_size) == (rate.num * bin_size) \div (rate.den * 1000)

\* sum(firing_rates) * bin_size / 1000
CountedSpikes(r) ==
    SumSeq([k \in 1..Len(r.result.firing_rates) |->
               CountOf(r.result.firing_rates[k], r.bin_size)])

SpikesUpTo(train, t) == Cardinality({i \in 1..Len(train) : 0 <= train[i] /\ train[i] <= t})

RateOk == rates.called /\ rates.bin_size > 0 /\ rates.result.outcome = "ok"

\* C3: rate conservation.  For a sorted train whose timestamps all lie in
\* [0, duration], duration given or defaulted, the per-bin counts sum to
\* len(train): sum(firing_rates) * bin_size / 1000 = len(train).
C3_RateConservation ==
    (/\ rates.called /\ rates.bin_size > 0
     /\ \A i \in 1..Len(spike_times) :
            0 <= spike_times[i] /\ spike_times[i] <= rates.result.duration)
    => /\ rates.result.outcome = "ok"
       /\ CountedSpikes(rates) = Len(spike_times)

\* C9 as stated: ceil(duration / bin_size) bins, two sequences of that
\* length, bin k starting at k * bin_size, rates >= 0, and no bin reaching
\* past duration: exactly the spikes in [0, duration] are counted when there
\* is at least one bin.
C9_PartitionEndsAtDuration ==
    RateOk =>
        LET r == rates.result
            nb == CeilDiv(r.duration, rates.bin_size)
        IN /\ Len(r.firing_rates) = nb
           /\ Len(r.bin_centers) = nb
           /\ nb >= 1 => CountedSpikes(rates) = SpikesUpTo(spike_times, r.duration)

\* C9 amended: ceil(duration / bin_size) bins, two sequences of that length,
\* bin k (from 0) starting at k * bin_size and centred at
\* k * bin_size + bin_size / 2, rates >= 0, every bin of full width: the
\* last bin ends at nb * bin_size >= duration, and exactly the spikes in
\* [0, nb * bin_size] are counted.
C9_FullWidthBins ==
    RateOk =>
        LET r == rates.result
            b == rates.bin_size
            nb == CeilDiv(r.duration, b)
        IN /\ Len(r.firing_rates) = nb
           /\ Len(r.bin_centers) = nb
           /\ \A k \in 1..nb :
                  /\ r.bin_centers[k].num * 2 = (2 * (k - 1) * b + b) * r.bin_centers[k].den
                  /\ r.firing_rates[k].num >= 0 /\ r.firing_rates[k].den > 0
           /\ nb * b >= r.duration
           /\ nb * b < r.duration + b
           /\ CountedSpikes(rates) = (IF nb >= 1 THEN SpikesUpTo(spike_times, nb * b) ELSE 0)

\* A spike later than duration was counted in the last, full-width bin.
C9_Witness ==
    /\ RateOk
    /\ rates.given # None
    /\ rates.result.duration % rates.bin_size # 0
    /\ CountedSpikes(rates) > SpikesUpTo(spike_times, rates.result.duration)

-----------------------------------------------------------------------------
(* The spike generator *)

\* numpy's global random source is a deterministic generator: seeding fixes
\* its state, each draw is a function of the state and advances it.  The
\* function is left open: stream, fixed at the start, gives the output in
\* each state, and every stream is considered.

np_random_seed_skipped(cur, seed) == cur

\* np.random.seed(seed): the state after seeding depends on the seed alone.
np_random_seed(cur, seed) == seed % RngStates

Advance(state, k) == (state + k) % RngStates

\* np.random.poisson(lam) for lam >= 0, from the output raw of the source:
\* 0 when lam = 0, any count otherwise.
Poisson(lam, raw) == IF lam = 0 THEN 0 ELSE raw

\* One value of np.random.uniform(0, duration): duration * u, where
\* u = raw / Resolution lies in [0, 1), on the grid of timestamps.
Uniform(duration, raw) == (raw * duration) \div Resolution

RECURSIVE Insert(_, _)
Insert(x, s) ==
    IF s = <<>> THEN <<x>>
    ELSE IF x <= Head(s) THEN <<x>> \o s
    ELSE <<Head(s)>> \o Insert(x, Tail(s))

np_sort_skipped(s) == s

\* np.sort: the elements in ascending order.
RECURSIVE np_sort(_)
np_sort(s) == IF s = <<>> THEN <<>> ELSE Insert(Head(s), np_sort(Tail(s)))

\* generate_spike_train(rate, duration, seed), entered with the global random
\* source in state cur.  np.random.poisson raises ValueError for lam < 0.
generate_spike_train(rate, duration, seed, cur) ==
    LET seeded == np_random_seed(cur, seed)
        expected_spikes == TruncDiv(rate * duration, 1000)
    IN IF expected_spikes < 0
       THEN [outcome |-> "ValueError", expected_spikes |-> expected_spikes,
             num_spikes |-> 0, drawn |-> <<>>, spike_times |-> <<>>,
             rng |-> seeded]
       ELSE LET num_spikes == Poisson(expected_spikes, stream[seeded + 1])
                first == IF expected_spikes = 0 THEN seeded ELSE Advance(seeded, 1)
                drawn == [i \in 1..num_spikes |->
                             Uniform(duration, stream[Advance(first, i - 1) + 1])]
            IN [outcome |-> "ok", expected_spikes |-> expected_spikes,
                num_spikes |-> num_spikes, drawn |-> drawn,
                spike_times |-> np_sort(drawn),
                rng |-> Advance(first, num_spikes)]

Rates == {-1, 0, 1, 3}
Durations == {-500, 0, 500, 1000}
Seeds == {0, 1}
PipelineBinSizes == {0, 50, 250}
\* The valid arguments the determinism check repeats.
ValidRates == {1, 3}
ValidDurations == {500, 1000}

Streams == [1..RngStates -> 0..(Resolution - 1)]

InitGen ==
    /\ stream \in Streams
    /\ rng \in 0..(RngStates - 1)
    /\ gen = NotCalled
    /\ probe = NotCalled
    /\ rates = NotCalled
    /\ spike_times = <<>>
    /\ stats = NotCalled
    /\ summary = NotCalled

\* Mark the kept call as followed by other use of the random source.
Disturbed(p) == IF p.called THEN [p EXCEPT !.disturbed = TRUE] ELSE p

\* A call generate_spike_train(rate, duration, seed); with keep the call is
\* also remembered in probe.  after_other_use records that the call follows
\* a remembered call and other use of the random source since.
Generate(rate, duration, seed, keep) ==
    LET r == generate_spike_train(rate, duration, seed, rng)
        call == [called |-> TRUE, rate |-> rate, duration |-> duration,
                 seed |-> seed, outcome |-> r.outcome,
                 expected_spikes |-> r.expected_spikes,
                 num_spikes |-> r.num_spikes, drawn |-> r.drawn,
                 spike_times |-> r.spike_times,
                 after_other_use |-> ~keep /\ probe.called /\ probe.disturbed]
    IN /\ gen' = call
       /\ rng' = r.rng
       /\ probe' = IF keep
                   THEN [called |-> TRUE, rate |-> rate, duration |-> duration,
                         seed |-> seed, outcome |-> r.outcome,
                         spike_times |-> r.spike_times, disturbed |-> FALSE]
                   ELSE IF probe.called /\ <<probe.rate, probe.duration, probe.seed>>
                                              # <<rate, duration, seed>>
                   THEN Disturbed(probe)
                   ELSE probe
       /\ rates' = NotCalled
       /\ UNCHANGED <<spike_times, stats, summary, stream>>

\* Any other draw from the global random source.
OtherDraw ==
    /\ rng' = Advance(rng, 1)
    /\ probe' = Disturbed(probe)
    /\ UNCHANGED <<spike_times, rates, stats, summary, stream, gen>>

\* calculate_firing_rate(spike_times, bin_size) on the generated train, with
\* no duration given, as plot_spike_analysis calls it.
EstimateGenerated(bin_size) ==
    /\ gen.called /\ gen.outcome = "ok"
    /\ rates' = [called |-> TRUE, bin_size |-> bin_size, given |-> None,
                 result |-> calculate_firing_rate(gen.spike_times, bin_size, None)]
    /\ UNCHANGED <<spike_times, stats, summary, rng, stream, gen, probe>>

NextGen ==
    \/ \E rate \in Rates, duration \in Durations, seed \in Seeds :
           Generate(rate, duration, seed, FALSE)
    \/ OtherDraw
    \/ \E bin_size \in PipelineBinSizes : EstimateGenerated(bin_size)

SpecGen == InitGen /\ [][NextGen]_vars

NextDet ==
    \/ \E rate \in ValidRates, duration \in ValidDurations, seed \in Seeds,
          keep \in BOOLEAN : Generate(rate, duration, seed, keep)
    \/ OtherDraw

SpecDet == InitGen /\ [][NextDet]_vars

-----------------------------------------------------------------------------
(* Claims about the generator and the pipeline *)

ValidCall == gen.called /\ gen.rate >= 0 /\ gen.duration > 0

\* C1: invalid parameters are rejected: generate_spike_train with rate < 0
\* or duration <= 0, and calculate_firing_rate with bin_size <= 0, end in an
\* error and return no spike train and no rate series.
C1_InvalidParametersRejected ==
    /\ (gen.called /\ (gen.rate < 0 \/ gen.duration <= 0)) => gen.outcome # "ok"
    /\ (rates.called /\ rates.bin_size <= 0) => rates.result.outcome # "ok"

\* C4: two calls generate_spike_train(rate, duration, seed) with identical
\* arguments return identical timestamp sequences, whatever happened to the
\* global random source before or between them.
C4_Determinism ==
    (/\ probe.called /\ gen.called
     /\ <<probe.rate, probe.duration, probe.seed>> = <<gen.rate, gen.duration, gen.seed>>)
    => /\ gen.outcome = probe.outcome
       /\ gen.spike_times = probe.spike_times

\* The kept call was repeated after other use of the random source, and
\* returned spikes.
C4_Witness ==
    /\ probe.called /\ gen.called
    /\ gen.after_other_use
    /\ <<probe.rate, probe.duration, probe.seed>> = <<gen.rate, gen.duration, gen.seed>>
    /\ Len(gen.spike_times) >= 2
    /\ gen.spike_times[1] < gen.spike_times[2]

\* C7: for rate >= 0 and duration > 0 the mean handed to the Poisson draw
\* equals rate * duration / 1000 exactly.
C7_PoissonMeanExact ==
    ValidCall => gen.expected_spikes * 1000 = gen.rate * gen.duration

\* C8: for rate >= 0 and duration > 0 the returned sequence is
\* non-decreasing, has as many timestamps as the drawn count n, and every
\* timestamp t satisfies 0 <= t < duration.
C8_SortedInWindow ==
    ValidCall =>
        /\ gen.outcome = "ok"
        /\ Len(gen.spike_times) = gen.num_spikes
        /\ \A i \in 1..Len(gen.spike_times) :
               /\ 0 <= gen.spike_times[i] /\ gen.spike_times[i] < gen.duration
               /\ i > 1 => gen.spike_times[i - 1] <= gen.spike_times[i]

\* Timestamps drawn out of order were returned in order.
C8_Witness ==
    /\ ValidCall
    /\ gen.num_spikes >= 2
    /\ gen.drawn # gen.spike_times
    /\ gen.spike_times[1] < gen.spike_times[2]

PipelineCase ==
    /\ ValidCall /\ gen.outcome = "ok" /\ Len(gen.spike_times) > 0
    /\ rates.called /\ rates.bin_size > 0
    /\ gen.duration % rates.bin_size = 0

\* C10 as stated: for a non-empty generated train over a window D that is a
\* multiple of bin_size, calculate_firing_rate(train, bin_size) returns
\* D / bin_size bins wherever the last spike falls.
C10_BinCountIsWindow ==
    PipelineCase =>
        Len(rates.result.firing_rates) = gen.duration \div rates.bin_size

\* C10 amended: it returns ceil(last / bin_size) bins, last being the last
\* timestamp of the train; that is at most D / bin_size, and equal to it
\* exactly when the last spike is later than D - bin_size.
C10_BinCountIsLastSpike ==
    PipelineCase =>
        LET last == gen.spike_times[Len(gen.spike_times)]
            nb == Len(rates.result.firing_rates)
            b == rates.bin_size
        IN /\ rates.result.outcome = "ok"
           /\ nb = CeilDiv(last, b)
           /\ Len(rates.result.bin_centers) = nb
           /\ nb <= gen.duration \div b
           /\ (nb = gen.duration \div b) <=> (last > gen.duration - b)

\* The last spike fell early and fewer than D / bin_size bins came back.
C10_Witness ==
    /\ PipelineCase
    /\ gen.spike_times[Len(gen.spike_times)] > 0
    /\ Len(rates.result.firing_rates) < gen.duration \div rates.bin_size

=============================================================================
